---- MODULE Spec2Model ----
(***************************************************************************)
(* The two Fibonacci circuits of halo2-learn (src/example1.rs: three       *)
(* advice columns, same-row gate; src/example2.rs: one advice column,      *)
(* rotation gate), laid out by a region layouter and checked by the mock   *)
(* checker.  The circuits are translated from the Rust sources; the        *)
(* layouter and the checker they call are modelled from the design         *)
(* specification (sections 4.3 and 4.5).                                   *)
(***************************************************************************)
EXTENDS Integers, Sequences, FiniteSets, TLC

VARIABLES layout, circuit, k, instance, L, pc, i, prev_b, prev_c, tampered, result

vars == <<layout, circuit, k, instance, L, pc, i, prev_b, prev_c, tampered, result>>

(* ------------------------------ bounds --------------------------------- *)

\* The field modulus of the model (the programs use 255-bit prime fields).
P == 61
\* Witness inputs a, b range over 0..MaxIn and P - 1.
MaxIn == 2
\* Size exponents k range over 1..MaxK.
MaxK == 5
\* A tampered value differs from the honest one by 1..MaxDelta.
MaxDelta == 2

(* --------------------------- program constants ------------------------- *)

\* for i in 3..10
LoopStart == 3
LoopEnd == 10
\* chip.assign_column(.., self.a, self.b, 10)
NRows == 10
\* chip.expose_public(.., &prev_c, 0) / (.., &out, 0)
InstanceRow1 == 0
InstanceRow2 == 0
\* let pub_input = vec![Fp::from(55)]
MainPub == 55
\* let k = 4 (example1), let k = 5 (example2)
MainK1 == 4
MainK2 == 5

(* ------------------------------- field --------------------------------- *)

Fp == 0 .. (P - 1)

F_from(x) == x % P
F_add(x, y) == (x + y) % P
F_sub(x, y) == (x + P - y) % P
F_mul(x, y) == (x * y) % P

\* Value::unknown() / Option::None
Unknown == 0 - 1
\* Err(Error::Synthesis)
ErrSynthesis == 0 - 2

\* a.and_then(|a| b.map(|b| a + b))
Value_add(x, y) == IF x = Unknown \/ y = Unknown THEN Unknown ELSE F_add(x, y)

\* a.ok_or(Error::Synthesis)
ok_or(x) == IF x = Unknown THEN ErrSynthesis ELSE x

Max(x, y) == IF x >= y THEN x ELSE y

(* ----------------------------- layouter -------------------------------- *)

InstanceCell(row) == <<"instance", row>>

NoCell == [cell |-> <<"none", 0>>, value |-> Unknown]

Put(f, x, v) == [y \in (DOMAIN f) \cup {x} |-> IF y = x THEN v ELSE f[y]]

new_layouter(kk) ==
    [n |-> 2 ^ kk, next_row |-> 0, cur_start |-> 0, cur_rows |-> 0,
     regions |-> <<>>, advice |-> [c \in {} |-> 0], selectors |-> {},
     copies |-> {}, assigned |-> {}, error |-> "none"]

\* A value that is an error or unknown leaves the cell unknown.
to_cell_value(v) == IF v = ErrSynthesis THEN Unknown ELSE v

\* The region uses local row local_row: it must fit in the n rows.
touch(S, local_row) ==
    IF S.error # "none" THEN S
    ELSE IF S.cur_start + local_row >= S.n
         THEN [S EXCEPT !.error = "CircuitTooLarge"]
         ELSE [S EXCEPT !.cur_rows = Max(@, local_row + 1)]

begin_region(S) ==
    IF S.error # "none" THEN S
    ELSE [S EXCEPT !.cur_start = S.next_row, !.cur_rows = 0]

end_region(S, name) ==
    IF S.error # "none" THEN S
    ELSE [S EXCEPT !.regions = Append(@, [name |-> name, start |-> S.cur_start,
                                           rows |-> S.cur_rows]),
                   !.next_row = S.cur_start + S.cur_rows]

assigned_cell(S, col, local_row, value) ==
    [cell |-> <<col, S.cur_start + local_row>>, value |-> to_cell_value(value)]

assign_advice(S, col, local_row, value) ==
    LET T == touch(S, local_row)
        c == assigned_cell(S, col, local_row, value)
    IN  IF T.error # "none" THEN T
        ELSE [T EXCEPT !.advice = Put(@, c.cell, c.value),
                       !.assigned = @ \cup {[region |-> Len(S.regions) + 1,
                                             cell |-> c.cell]}]

enable(S, local_row) ==
    LET T == touch(S, local_row)
    IN  IF T.error # "none" THEN T
        ELSE [T EXCEPT !.selectors = @ \cup {S.cur_start + local_row}]

copy_advice(S, from, col, local_row) ==
    LET T == assign_advice(S, col, local_row, from.value)
        c == assigned_cell(S, col, local_row, from.value)
    IN  IF T.error # "none" THEN T
        ELSE [T EXCEPT !.copies = @ \cup {{from.cell, c.cell}}]

constrain_instance(S, cell, row) ==
    IF S.error # "none" THEN S
    ELSE [S EXCEPT !.copies = @ \cup {{cell, InstanceCell(row)}}]

(* ------------------- example1: three advice columns -------------------- *)

\* format!("{}th row", row)
th_row(row) == ToString(row) \o "th row"

\* Variant: the product where the sum is meant.
Fibo1_c_val_mul(x, y) == IF x = Unknown \/ y = Unknown THEN Unknown ELSE F_mul(x, y)

\* let c_val = a.and_then(|a| b.map(|b| a + b));
Fibo1_c_val(x, y) == Value_add(x, y)

\* assign_first_row: the body of the region "first row" and the region itself
Fibo1_first_row_region(S, a, b) ==
    LET S0 == begin_region(S)
        S1 == enable(S0, 0)
        S2 == assign_advice(S1, "col_a", 0, a)
        S3 == assign_advice(S2, "col_b", 0, b)
        S4 == assign_advice(S3, "col_c", 0, Fibo1_c_val(a, b))
    IN  end_region(S4, "first row")

\* Variant: the selector is not enabled in the region.
Fibo1_assign_row_no_selector(S, pb, pcc, row) ==
    LET S0 == begin_region(S)
        S2 == copy_advice(S0, pb, "col_a", 0)
        S3 == copy_advice(S2, pcc, "col_b", 0)
        S4 == assign_advice(S3, "col_c", 0, Fibo1_c_val(pb.value, pcc.value))
    IN  end_region(S4, th_row(row))

\* Variant: col_a is assigned the value without the copy constraint.
Fibo1_assign_row_no_copy(S, pb, pcc, row) ==
    LET S0 == begin_region(S)
        S1 == enable(S0, 0)
        S2 == assign_advice(S1, "col_a", 0, pb.value)
        S3 == copy_advice(S2, pcc, "col_b", 0)
        S4 == assign_advice(S3, "col_c", 0, Fibo1_c_val(pb.value, pcc.value))
    IN  end_region(S4, th_row(row))

\* Variant: the region is labelled with the next index.
Fibo1_assign_row_mislabelled(S, pb, pcc, row) ==
    LET S0 == begin_region(S)
        S1 == enable(S0, 0)
        S2 == copy_advice(S1, pb, "col_a", 0)
        S3 == copy_advice(S2, pcc, "col_b", 0)
        S4 == assign_advice(S3, "col_c", 0, Fibo1_c_val(pb.value, pcc.value))
    IN  end_region(S4, th_row(row + 1))

\* assign_row: the body of the region "{row}th row" and the region itself
Fibo1_assign_row_region(S, pb, pcc, row) ==
    LET S0 == begin_region(S)
        S1 == enable(S0, 0)
        S2 == copy_advice(S1, pb, "col_a", 0)
        S3 == copy_advice(S2, pcc, "col_b", 0)
        S4 == assign_advice(S3, "col_c", 0, Fibo1_c_val(pb.value, pcc.value))
    IN  end_region(S4, th_row(row))

\* Variant: the range ends one early (3..9).
Fibo1_loop_done_early(ii) == ii >= LoopEnd - 1

\* Variant: the loop body runs once.
Fibo1_loop_done_once(ii) == ii >= LoopStart + 1

\* for i in 3..10: the loop is over once i reaches the end of the range
Fibo1_loop_done(ii) == ii >= LoopEnd

\* Variant: the cell is bound to the next instance row.
Fibo1_expose_public_next_row(S, cell, row) == constrain_instance(S, cell.cell, row + 1)

\* expose_public: layouter.constrain_instance(cell.cell(), self.config.instance, row)
Fibo1_expose_public_region(S, cell, row) == constrain_instance(S, cell.cell, row)

\* meta.create_gate("add", ..): the cells the gate queries at row r
Fibo1_gate_queries(r) == <<<<"col_a", r>>, <<"col_b", r>>, <<"col_c", r>>>>

\* vec![s * (a + b - c)]
Fibo1_gate_add(s, a, b, c) == F_mul(s, F_sub(F_add(a, b), c))

\* Variant: the witness is kept.
Fibo1_without_witnesses_keep(c) == c

\* fn without_witnesses(&self) -> Self { Self::default() }
Fibo1_without_witnesses(c) == [a |-> Unknown, b |-> Unknown]

(* --------------------- example2: one advice column --------------------- *)

\* Variant: the difference where the sum is meant.
Fibo2_c_val_sub(x, y) == IF x = Unknown \/ y = Unknown THEN Unknown ELSE F_sub(x, y)

\* let c_val = a_cell.value().and_then(|a| b_cell.value().map(|b| *a + *b));
Fibo2_c_val(x, y) == Value_add(x, y)

\* Variant: the selector is also enabled on the last row but one.
Fibo2_selector_on_late(row, nrows) == row < nrows - 1

\* if row < nrows - 2 { self.config.selector.enable(&mut region, row)?; }
Fibo2_selector_on(row, nrows) == row < nrows - 2

\* for row in 2..nrows { .. }: the state is the layouter and a_cell, b_cell
RECURSIVE Fibo2_column_loop(_, _, _, _, _)
Fibo2_column_loop(S, a_cell, b_cell, row, nrows) ==
    IF row >= nrows \/ S.error # "none"
    THEN [S |-> S, out |-> b_cell]
    ELSE LET S1 == IF Fibo2_selector_on(row, nrows) THEN enable(S, row) ELSE S
             c_val == Fibo2_c_val(a_cell.value, b_cell.value)
             S2 == assign_advice(S1, "advice", row, ok_or(c_val))
             c_cell == assigned_cell(S1, "advice", row, ok_or(c_val))
         IN  Fibo2_column_loop(S2, b_cell, c_cell, row + 1, nrows)

\* assign_column: the body of the region "whole column" and the region itself
Fibo2_assign_column_region(S, a, b, nrows) ==
    LET S0 == begin_region(S)
        S1 == enable(S0, 0)
        S2 == enable(S1, 1)
        S3 == assign_advice(S2, "advice", 0, ok_or(a))
        a_cell == assigned_cell(S2, "advice", 0, ok_or(a))
        S4 == assign_advice(S3, "advice", 1, ok_or(b))
        b_cell == assigned_cell(S3, "advice", 1, ok_or(b))
        R == Fibo2_column_loop(S4, a_cell, b_cell, 2, nrows)
    IN  [S |-> end_region(R.S, "whole column"), out |-> R.out]

\* expose_public: layouter.constrain_instance(cell.cell(), self.config.instance, row)
Fibo2_expose_public_region(S, cell, row) == constrain_instance(S, cell.cell, row)

\* meta.create_gate("add", ..): Rotation::cur(), Rotation::next(), Rotation(2)
Fibo2_gate_queries(r) == <<<<"advice", r>>, <<"advice", r + 1>>, <<"advice", r + 2>>>>

\* vec![s * (a + b - c)]
Fibo2_gate_add(s, a, b, c) == F_mul(s, F_sub(F_add(a, b), c))

\* fn without_witnesses(&self) -> Self { Self::default() }
Fibo2_without_witnesses(c) == [a |-> Unknown, b |-> Unknown]

(* --------------------------- mock checker ------------------------------ *)

NoResult == [tag |-> "none", reason |-> "none", gate_failures |-> {},
             copy_failures |-> {}, incomplete |-> {}]

SetupError(reason) == [tag |-> "SetupError", reason |-> reason, gate_failures |-> {},
                       copy_failures |-> {}, incomplete |-> {}]

\* The value the grid holds at a cell; an unassigned cell has no value.
CellValue(S, inst, cell) ==
    IF cell[1] = "instance"
    THEN IF cell[2] + 1 \in DOMAIN inst THEN inst[cell[2] + 1] ELSE Unknown
    ELSE IF cell \in DOMAIN S.advice THEN S.advice[cell] ELSE Unknown

gate_queries(lay, r) ==
    IF lay = "three" THEN Fibo1_gate_queries(r) ELSE Fibo2_gate_queries(r)

gate_add(lay, s, a, b, c) ==
    IF lay = "three" THEN Fibo1_gate_add(s, a, b, c) ELSE Fibo2_gate_add(s, a, b, c)

\* The rows on which the gate is checked: the selector is enabled there.
CheckedRows(S) == {r \in 0 .. (S.n - 1) : r \in S.selectors}

RowUnknown(lay, S, inst, r) ==
    \E j \in 1 .. 3 : CellValue(S, inst, gate_queries(lay, r)[j]) = Unknown

GateValue(lay, S, inst, r) ==
    LET q == gate_queries(lay, r)
    IN  gate_add(lay, 1, CellValue(S, inst, q[1]), CellValue(S, inst, q[2]),
                 CellValue(S, inst, q[3]))

\* Connected components of the copy-constraint graph.
RECURSIVE Reach(_, _)
Reach(cells, copies) ==
    LET T == cells \cup UNION {p \in copies : p \cap cells # {}}
    IN  IF T = cells THEN cells ELSE Reach(T, copies)

Components(copies) == {Reach({c}, copies) : c \in UNION copies}

ConcreteValues(S, inst, comp) == {CellValue(S, inst, c) : c \in comp} \ {Unknown}

MockProver_check(lay, S, inst) ==
    LET inc == {<<r, "add">> : r \in {x \in CheckedRows(S) : RowUnknown(lay, S, inst, x)}}
        gf == {<<r, "add">> : r \in {x \in CheckedRows(S) :
                                       /\ ~RowUnknown(lay, S, inst, x)
                                       /\ GateValue(lay, S, inst, x) # 0}}
        cf == {comp \in Components(S.copies) :
                   Cardinality(ConcreteValues(S, inst, comp)) >= 2}
    IN  [tag |-> IF inc = {} /\ gf = {} /\ cf = {} THEN "Satisfied" ELSE "Unsatisfied",
         reason |-> "none", gate_failures |-> gf, copy_failures |-> cf,
         incomplete |-> inc]

(* ------------------------------ inputs --------------------------------- *)

InputVals == (0 .. MaxIn) \cup {P - 1}

\* f(0) = a, f(1) = b, f(m) = f(m-1) + f(m-2) in the field
RECURSIVE Fib(_, _, _)
Fib(a, b, m) == IF m = 0 THEN a ELSE Fib(b, F_add(a, b), m - 1)

PubChoices(c) ==
    IF c.a = Unknown \/ c.b = Unknown THEN {0, F_from(MainPub)}
    ELSE {Fib(c.a, c.b, 9), F_add(Fib(c.a, c.b, 9), 1), F_from(MainPub)}

without_witnesses(lay, c) ==
    IF lay = "three" THEN Fibo1_without_witnesses(c) ELSE Fibo2_without_witnesses(c)

NoTamper == <<"none", 0>>

(* ------------------------------ actions -------------------------------- *)

Init ==
    /\ layout \in {"three", "one"}
    /\ \E a \in InputVals \cup {Unknown}, b \in InputVals \cup {Unknown}, blank \in BOOLEAN :
          LET c == [a |-> a, b |-> b]
              w == IF blank THEN without_witnesses(layout, c) ELSE c
          IN  circuit = [a |-> w.a, b |-> w.b, blank |-> blank]
    /\ k \in 1 .. MaxK
    /\ \E v \in PubChoices(circuit) : instance = <<v>>
    /\ L = new_layouter(k)
    /\ pc = IF layout = "three" THEN "first_row" ELSE "column"
    /\ i = LoopStart
    /\ prev_b = NoCell
    /\ prev_c = NoCell
    /\ tampered = NoTamper
    /\ result = NoResult

\* After a layouter call: synthesize returns the error, or goes on to `next`.
Step(S, next) ==
    /\ L' = S
    /\ IF S.error # "none"
       THEN pc' = "done" /\ result' = SetupError(S.error)
       ELSE pc' = next /\ result' = result

Fibo1_assign_first_row ==
    /\ pc = "first_row"
    /\ LET S == Fibo1_first_row_region(L, circuit.a, circuit.b)
       IN  /\ Step(S, IF Fibo1_loop_done(LoopStart) THEN "expose" ELSE "loop")
           /\ prev_b' = assigned_cell(begin_region(L), "col_b", 0, circuit.b)
           /\ prev_c' = assigned_cell(begin_region(L), "col_c", 0,
                                      Fibo1_c_val(circuit.a, circuit.b))
    /\ UNCHANGED <<layout, circuit, k, instance, i, tampered>>

Fibo1_assign_row ==
    /\ pc = "loop"
    /\ LET S == Fibo1_assign_row_region(L, prev_b, prev_c, i)
       IN  /\ Step(S, IF Fibo1_loop_done(i + 1) THEN "expose" ELSE "loop")
           /\ prev_b' = prev_c
           /\ prev_c' = assigned_cell(begin_region(L), "col_c", 0,
                                      Fibo1_c_val(prev_b.value, prev_c.value))
    /\ i' = i + 1
    /\ UNCHANGED <<layout, circuit, k, instance, tampered>>

Fibo1_expose_public ==
    /\ pc = "expose"
    /\ Step(Fibo1_expose_public_region(L, prev_c, InstanceRow1), "synthesized")
    /\ UNCHANGED <<layout, circuit, k, instance, i, prev_b, prev_c, tampered>>

Fibo2_assign_column ==
    /\ pc = "column"
    /\ LET R == Fibo2_assign_column_region(L, circuit.a, circuit.b, NRows)
       IN  /\ Step(R.S, "expose2")
           /\ prev_c' = R.out
    /\ UNCHANGED <<layout, circuit, k, instance, i, prev_b, tampered>>

Fibo2_expose_public ==
    /\ pc = "expose2"
    /\ Step(Fibo2_expose_public_region(L, prev_c, InstanceRow2), "synthesized")
    /\ UNCHANGED <<layout, circuit, k, instance, i, prev_b, prev_c, tampered>>

\* One assigned advice cell of the grid is replaced by a different field element.
TamperWitness ==
    /\ pc = "synthesized"
    /\ tampered = NoTamper
    /\ \E cell \in DOMAIN L.advice, d \in 1 .. MaxDelta :
          /\ L.advice[cell] # Unknown
          /\ L' = [L EXCEPT !.advice[cell] = F_add(@, d)]
          /\ tampered' = cell
    /\ UNCHANGED <<layout, circuit, k, instance, pc, i, prev_b, prev_c, result>>

MockProver_verify ==
    /\ pc = "synthesized"
    /\ result' = MockProver_check(layout, L, instance)
    /\ pc' = "done"
    /\ UNCHANGED <<layout, circuit, k, instance, L, i, prev_b, prev_c, tampered>>

Next ==
    \/ Fibo1_assign_first_row
    \/ Fibo1_assign_row
    \/ Fibo1_expose_public
    \/ Fibo2_assign_column
    \/ Fibo2_expose_public
    \/ TamperWitness
    \/ MockProver_verify

Spec == Init /\ [][Next]_vars

(* ------------------------------ claims --------------------------------- *)

Known == circuit.a # Unknown /\ circuit.b # Unknown

Checked == pc = "done" /\ result.tag # "SetupError"

\* The cell synthesize exposes: the last c cell (three columns), local row 9 (one).
OutCell == IF layout = "three" THEN <<"col_c", 7>> ELSE <<"advice", 9>>

Satisfied ==
    /\ result.tag = "Satisfied"
    /\ result.gate_failures = {}
    /\ result.copy_failures = {}
    /\ result.incomplete = {}

\* C1: three-column layout, k = 4, any concrete a, b and the public input f(9):
\* the checker returns Satisfied with no gate and no copy failure; in particular
\* a = 1, b = 1 with public input [55] is satisfied.
C1_ThreeColumnSatisfied ==
    /\ (/\ pc = "done" /\ layout = "three" /\ k = MainK1 /\ Known
        /\ tampered = NoTamper
        /\ instance = <<Fib(circuit.a, circuit.b, 9)>>) => Satisfied
    /\ (/\ pc = "done" /\ layout = "three" /\ k = MainK1
        /\ circuit.a = 1 /\ circuit.b = 1
        /\ tampered = NoTamper
        /\ instance = <<F_from(55)>>) => Satisfied

C1_Witness ==
    /\ pc = "done" /\ layout = "three" /\ k = MainK1
    /\ circuit.a = 1 /\ circuit.b = 1 /\ tampered = NoTamper
    /\ instance = <<F_from(55)>>
    /\ L.advice[<<"col_c", 7>>] = F_from(55)
    /\ Satisfied

\* C2: single-column layout, k = 5, any concrete a, b and the public input equal to
\* the value at local row 9 (f(9)): the checker returns Satisfied; in particular
\* a = 1, b = 1 with public input [55] is satisfied.
C2_OneColumnSatisfied ==
    /\ (/\ pc = "done" /\ layout = "one" /\ k = MainK2 /\ Known
        /\ tampered = NoTamper
        /\ instance = <<Fib(circuit.a, circuit.b, 9)>>)
       => (Satisfied /\ L.advice[<<"advice", 9>>] = Fib(circuit.a, circuit.b, 9))
    /\ (/\ pc = "done" /\ layout = "one" /\ k = MainK2
        /\ circuit.a = 1 /\ circuit.b = 1
        /\ tampered = NoTamper
        /\ instance = <<F_from(55)>>)
       => (Satisfied /\ L.advice[<<"advice", 0>>] = 1 /\ L.advice[<<"advice", 1>>] = 1)

C2_Witness ==
    /\ pc = "done" /\ layout = "one" /\ k = MainK2
    /\ circuit.a = 1 /\ circuit.b = 1 /\ tampered = NoTamper
    /\ instance = <<F_from(55)>>
    /\ L.advice[<<"advice", 9>>] = F_from(55)
    /\ Satisfied

\* C3: a valid witness with a public input that differs from the final computed
\* cell: the checker returns Unsatisfied, a reported copy-failure component holds
\* the exposed advice cell and the instance cell (instance, row 0), and there is
\* no gate failure.
C3_TamperedPublicInput ==
    (/\ Checked /\ Known /\ tampered = NoTamper
     /\ instance[1] # L.advice[OutCell])
    => /\ result.tag = "Unsatisfied"
       /\ result.gate_failures = {}
       /\ \E comp \in result.copy_failures : {OutCell, InstanceCell(0)} \subseteq comp

C3_Witness ==
    /\ Checked /\ Known /\ tampered = NoTamper /\ layout = "three"
    /\ instance[1] # L.advice[OutCell]
    /\ result.tag = "Unsatisfied"
    /\ result.copy_failures = {{OutCell, InstanceCell(0)}}

\* The intermediate cells of C4 and the row whose gate reads each first.
Intermediate(cell) ==
    IF layout = "three" THEN cell[1] = "col_c" ELSE cell[1] = "advice" /\ cell[2] >= 2

FirstUse(cell) == IF layout = "three" THEN cell[2] ELSE cell[2] - 2

\* C4: a valid witness in which exactly one intermediate value is replaced by a
\* different field element: the checker returns Unsatisfied and the gate-failure
\* list has an entry for gate "add" at the row that first uses the value.
C4_TamperedIntermediate ==
    (Checked /\ Known /\ tampered # NoTamper /\ Intermediate(tampered))
    => /\ result.tag = "Unsatisfied"
       /\ <<FirstUse(tampered), "add">> \in result.gate_failures

C4_Witness ==
    /\ Checked /\ Known /\ layout = "one" /\ tampered = <<"advice", 9>>
    /\ <<7, "add">> \in result.gate_failures

\* The rows the regions of the circuit allocate.
RowsAllocated == IF layout = "three" THEN (LoopEnd - LoopStart) + 1 ELSE NRows

\* C5: when 2^k is smaller than the rows the regions allocate, the run ends in
\* SetupError (CircuitTooLarge) and never in Satisfied or Unsatisfied.
C5_TooSmallIsSetupError ==
    (2 ^ k < RowsAllocated)
    => /\ result.tag \notin {"Satisfied", "Unsatisfied"}
       /\ pc \notin {"synthesized"}
       /\ pc = "done" => result = SetupError("CircuitTooLarge")

C5_Witness ==
    /\ pc = "done" /\ layout = "one" /\ k = 3
    /\ result.tag = "SetupError" /\ result.reason = "CircuitTooLarge"
    /\ L.advice # << >>

\* The value a cell of the grid holds.
ValueOf(cell) == CellValue(L, instance, cell)

\* Copy constraints p = {X, Y} and q = {Y, Z} that share the cell Y.
Transitive(p, q) ==
    \A X \in p \ q, Z \in q \ p :
       (ValueOf(X) # Unknown /\ ValueOf(Z) # Unknown /\ ValueOf(X) # ValueOf(Z))
       => /\ Cardinality({comp \in result.copy_failures : comp \cap (p \cup q) # {}}) = 1
          /\ \E comp \in result.copy_failures : (p \cup q) \subseteq comp

\* C6: copy constraints X-Y and Y-Z recorded (the three-column chaining records
\* them for the c cell of row j, col_b of row j+1 and col_a of row j+2), X and Z
\* holding different concrete values: the cells are reported in exactly one
\* conflicting component, which contains X, Y and Z.
C6_CopyTransitivity ==
    Checked =>
       /\ layout = "three" =>
             \A j \in 0 .. 5 :
                /\ {<<"col_b", j + 1>>, <<"col_c", j>>} \in L.copies
                /\ {<<"col_c", j>>, <<"col_a", j + 2>>} \in L.copies
       /\ \A p \in L.copies, q \in L.copies :
             (p # q /\ p \cap q # {}) => Transitive(p, q)

C6_Witness ==
    /\ Checked /\ layout = "three" /\ tampered = <<"col_a", 4>>
    /\ ValueOf(<<"col_b", 3>>) # ValueOf(<<"col_a", 4>>)
    /\ {<<"col_b", 3>>, <<"col_c", 2>>, <<"col_a", 4>>} \in result.copy_failures

\* C7: a cell without a concrete value read by the gate at a selector-enabled
\* row (the circuit of without_witnesses has a, b and every derived c unknown)
\* is reported as incomplete witness in both layouts: not Satisfied, not a
\* numeric gate mismatch.
C7_IncompleteWitness ==
    /\ Checked =>
          \A r \in CheckedRows(L) :
             RowUnknown(layout, L, instance, r)
             => /\ result.tag # "Satisfied"
                /\ <<r, "add">> \in result.incomplete
                /\ <<r, "add">> \notin result.gate_failures
    /\ (Checked /\ circuit.blank) =>
          /\ \A cell \in DOMAIN L.advice : L.advice[cell] = Unknown
          /\ result.incomplete = {<<r, "add">> : r \in 0 .. 7}

C7_Witness ==
    /\ Checked /\ circuit.blank /\ layout = "one" /\ instance = <<0>>
    /\ result.tag = "Unsatisfied"
    /\ result.incomplete # {} /\ result.gate_failures = {}

\* The label of the j-th region the three-column synthesize opens.
RegionLabel(j) == IF j = 1 THEN "first row" ELSE ToString(j + 1) \o "th row"

RegionsInOrder ==
    layout = "three" =>
       /\ \A j \in 1 .. Len(L.regions) :
             /\ L.regions[j].name = RegionLabel(j)
             /\ L.regions[j].start + L.regions[j].rows <= L.next_row
             /\ \A m \in (j + 1) .. Len(L.regions) :
                   L.regions[j].start + L.regions[j].rows <= L.regions[m].start
       /\ \A x \in L.assigned, y \in L.assigned : x.cell = y.cell => x.region = y.region
       /\ \A x \in L.assigned :
             x.region \in 1 .. Len(L.regions) =>
                /\ x.cell[2] >= L.regions[x.region].start
                /\ x.cell[2] < L.regions[x.region].start + L.regions[x.region].rows

\* C8: in the three-column synthesize the regions are placed in the order of the
\* assign_region calls (first row, then i = 3..9): the next free row never
\* decreases, each region starts at or after the end of every earlier one, and
\* no absolute row of an advice column is assigned by two regions.
C8_RegionOrder ==
    /\ []RegionsInOrder
    /\ [][/\ L'.next_row >= L.next_row
          /\ Len(L'.regions) >= Len(L.regions)
          /\ SubSeq(L'.regions, 1, Len(L.regions)) = L.regions]_vars

C8_Witness ==
    /\ layout = "three" /\ pc = "synthesized"
    /\ Len(L.regions) = 8 /\ L.next_row = 8
    /\ L.regions[8].name = "9th row" /\ L.regions[8].start = 7
    /\ Cardinality(L.assigned) = 24

\* C9: single-column layout, nrows = 10: the selector is enabled on exactly local
\* rows 0..7, the gate is checked only there, every cell such a row queries lies
\* in the 10 assigned rows, and rows 8 and 9 impose no gate constraint.
C9_SelectorRows ==
    (layout = "one" /\ pc \in {"expose2", "synthesized", "done"} /\ L.error = "none")
    => /\ L.selectors = 0 .. 7
       /\ CheckedRows(L) = 0 .. 7
       /\ \A r \in L.selectors : \A j \in 1 .. 3 :
             /\ Fibo2_gate_queries(r)[j] \in DOMAIN L.advice
             /\ Fibo2_gate_queries(r)[j][2] \in 0 .. 9
       /\ \A f \in result.gate_failures \cup result.incomplete : f[1] \in 0 .. 7

C9_Witness ==
    /\ layout = "one" /\ pc = "done" /\ Known /\ tampered = NoTamper
    /\ L.selectors = 0 .. 7
    /\ RowUnknown(layout, L, instance, 8)
    /\ RowUnknown(layout, L, instance, 9)
    /\ Satisfied

SynthesizedThree ==
    /\ layout = "three" /\ pc \in {"synthesized", "done"} /\ L.error = "none"
    /\ circuit.a = 1 /\ circuit.b = 1 /\ ~circuit.blank

LastC == <<"col_c", L.regions[Len(L.regions)].start>>

\* C10 as stated: after synthesize (a = 1, b = 1) the selector is enabled for rows 0
\* and 1..6 and no other row, the gate chained 7 times after the first row, the
\* last c cell bound to instance row 0.
C10_AsStated ==
    SynthesizedThree
    => /\ L.selectors = {0} \cup (1 .. 6)
       /\ Len(L.regions) - 1 = 7
       /\ {LastC, InstanceCell(0)} \in L.copies

\* C10 amended: after synthesize (a = 1, b = 1) the selector is enabled for rows 0
\* and 1..7 and no other row, the gate chained 7 times after the first row, the
\* last c cell (col_c, row 7) bound to instance row 0.
C10_SelectorRows ==
    SynthesizedThree
    => /\ L.selectors = {0} \cup (1 .. 7)
       /\ Len(L.regions) - 1 = 7
       /\ LastC = <<"col_c", 7>>
       /\ {LastC, InstanceCell(0)} \in L.copies
       /\ \A p \in L.copies : InstanceCell(0) \in p => p = {LastC, InstanceCell(0)}

C10_Witness ==
    /\ SynthesizedThree /\ pc = "synthesized"
    /\ 7 \in L.selectors
    /\ {<<"col_c", 7>>, InstanceCell(0)} \in L.copies

====
